---- MODULE Spec2Model ----
(***************************************************************************)
(* easyspec: Validate(spec, o) with its ValidationSummary, and              *)
(* Extend(ext_spec, parent_spec), src/src/index.ts                          *)
(*                                                                         *)
(* A JS value is a tagged record [t, e]: t is the type tag that            *)
(* fp-way-core's TypeOf gives ("number", "string", "null", "undefined",    *)
(* "array", "object") and e is the ordered list of own entries             *)
(* <<[k, v], ...>> of an object (empty for every other tag).               *)
(* A Spec node is [t |-> "object", props, opts]: props the ordered         *)
(* entries [k, v], each v either a rule array [t |-> "array", rules] or a  *)
(* nested Spec node; opts the record held in the ValidationOptionsSym slot *)
(* (only the fields the author set; the empty record when the slot is      *)
(* absent).  A rule is [p, m]: the validator and the message factory.      *)
(*                                                                         *)
(* Specifications: Spec, one Validate call on a Spec and a value;           *)
(* SpecRepeat, the call made twice; SpecDotted, one call on a Spec with a   *)
(* property name holding a "."; SpecExtend, one Extend call.                *)
(***************************************************************************)
EXTENDS Integers, Sequences, FiniteSets, TLC

VARIABLES spec, value, summary, log, pc, earlier, extension, extended

vars == <<spec, value, summary, log, pc, earlier, extension, extended>>

-----------------------------------------------------------------------------
(* fp-way-core primitives, as index.ts uses them *)

Exists(v) == v.t \notin {"null", "undefined"}

IsOfType(t, v) == v.t = t

\* obj.WithDefault(def, o): o's fields laid over def's
WithDefault(def, o) ==
    [f \in (DOMAIN def) \cup (DOMAIN o) |-> IF f \in DOMAIN o THEN o[f] ELSE def[f]]

\* position of key k in an entry list, 0 when it has none
RECURSIVE IndexOfKey(_, _, _)
IndexOfKey(es, k, i) ==
    IF i > Len(es) THEN 0
    ELSE IF es[i].k = k THEN i
    ELSE IndexOfKey(es, k, i + 1)

HasKey(es, k) == IndexOfKey(es, k, 1) # 0

Get(es, k) == es[IndexOfKey(es, k, 1)].v

\* o[k] = v on an object's entry list: in place when k is there, else appended
SetKey(es, k, v) ==
    IF HasKey(es, k)
    THEN [es EXCEPT ![IndexOfKey(es, k, 1)] = [k |-> k, v |-> v]]
    ELSE Append(es, [k |-> k, v |-> v])

\* obj.FromEntries: the entries assigned one after the other to a new object
RECURSIVE FromEntriesFrom(_, _, _)
FromEntriesFrom(es, i, acc) ==
    IF i > Len(es) THEN acc
    ELSE FromEntriesFrom(es, i + 1, SetKey(acc, es[i].k, es[i].v))

FromEntries(es) == FromEntriesFrom(es, 1, <<>>)

\* Array.prototype.includes on a list of strings
Includes(xs, x) == \E i \in 1..Len(xs) : xs[i] = x

\* xs.map(e => e.k)
KeysOf(es) == [i \in 1..Len(es) |-> es[i].k]

-----------------------------------------------------------------------------
(* namespace _ValidationSummary *)

New ==
    [valid |-> TRUE,
     errorCount |-> 0,
     missingProperties |-> <<>>,
     redundantProperties |-> <<>>,
     errors |-> <<>>]

incErrCount(s) == [s EXCEPT !.errorCount = @ + 1, !.valid = FALSE]

addErr(k, msg, s) ==
    incErrCount(
        IF HasKey(s.errors, k)
        THEN [s EXCEPT !.errors = SetKey(@, k, Append(Get(@, k), msg))]
        ELSE [s EXCEPT !.errors = SetKey(@, k, <<msg>>)])

\* a prefix put on the wrong side
prependKey_Reversed(key, v) == v \o "." \o key

prependKey(key, v) == key \o "." \o v

\* a merge that forgets the child's verdict
mergeNestedSummary_KeepsValid(s, key, nested) ==
    [valid |-> s.valid,
     errorCount |-> s.errorCount + nested.errorCount,
     missingProperties |->
        s.missingProperties \o
        [i \in 1..Len(nested.missingProperties) |->
            key \o "." \o nested.missingProperties[i]],
     redundantProperties |->
        s.redundantProperties \o
        [i \in 1..Len(nested.redundantProperties) |->
            key \o "." \o nested.redundantProperties[i]],
     errors |->
        FromEntries(
            s.errors \o
            [i \in 1..Len(nested.errors) |->
                [k |-> key \o "." \o nested.errors[i].k, v |-> nested.errors[i].v]])]

mergeNestedSummary(s, key, nested) ==
    [valid |-> nested.valid /\ s.valid,
     errorCount |-> s.errorCount + nested.errorCount,
     missingProperties |->
        s.missingProperties \o
        [i \in 1..Len(nested.missingProperties) |->
            prependKey(key, nested.missingProperties[i])],
     redundantProperties |->
        s.redundantProperties \o
        [i \in 1..Len(nested.redundantProperties) |->
            prependKey(key, nested.redundantProperties[i])],
     errors |->
        FromEntries(
            s.errors \o
            [i \in 1..Len(nested.errors) |->
                [k |-> prependKey(key, nested.errors[i].k),
                 v |-> nested.errors[i].v]])]

-----------------------------------------------------------------------------
(* options *)

_defaultValidationOptions ==
    [optionalProps |-> <<>>,
     redundantIsError |-> TRUE,
     stopAfterInvalid |-> FALSE,
     errorHandler |-> "default",
     isOptional |-> FALSE]

\* options.errorHandler(e), e = [key, value, ruleIndex, error]: "default" is the
\* handler of _defaultValidationOptions, "custom" one a Spec's author supplied
errorHandler(h, e) ==
    IF h = "default"
    THEN "Error while validating property \"" \o e.key \o "\" at rule index "
            \o ToString(e.ruleIndex)
    ELSE "custom handler: " \o e.key \o " / " \o ToString(e.ruleIndex)
            \o " / " \o e.error

-----------------------------------------------------------------------------
(* rules: [p, m].  p = "throw" is a validator that throws, any other p is   *)
(* IsOfType(p); m = "throw" is a message factory that throws, any other m   *)
(* is the tests' TypeErrorFactory(m).                                       *)

validator(rule, v, k, o) ==
    IF rule.p = "throw" THEN "throw"
    ELSE IF IsOfType(rule.p, v) THEN "true" ELSE "false"

TypeErrorFactory(t, v, k) ==
    k \o " must be of type " \o t \o " but was of type " \o v.t

msgFactory(rule, v, k, o) ==
    IF rule.m = "throw" THEN "throw" ELSE TypeErrorFactory(rule.m, v, k)

-----------------------------------------------------------------------------
(* the record of what one call did, kept next to the summary: one event per *)
(* step, with the summary as it was right after the step.  path is the list *)
(* of keys from the root call down to the call the event belongs to.        *)

Ev(ev, key, i, j, out, s) ==
    [ev |-> ev, path |-> <<>>, key |-> key, i |-> i, j |-> j, out |-> out, s |-> s]

Under(key, evs) ==
    [n \in 1..Len(evs) |-> [evs[n] EXCEPT !.path = <<key>> \o @]]

-----------------------------------------------------------------------------
(* Validate *)

\* a pre-check that takes a property holding null or undefined as present
_validationPreCheckProps_NullsPresent(declaredPropsToCheck, options, o) ==
    LET presentProps == KeysOf(o.e)
        requiredProps ==
            SelectSeq(declaredPropsToCheck, LAMBDA d : ~Includes(options.optionalProps, d))
    IN  [missing |-> SelectSeq(requiredProps, LAMBDA r : ~Includes(presentProps, r)),
         propsToCheck |->
            SelectSeq(presentProps, LAMBDA p : Includes(declaredPropsToCheck, p)),
         redundant |->
            SelectSeq(presentProps, LAMBDA p : ~Includes(declaredPropsToCheck, p))]

\* a pre-check that takes every declared property as required
_validationPreCheckProps_NoOptional(declaredPropsToCheck, options, o) ==
    LET presentProps == KeysOf(SelectSeq(o.e, LAMBDA kv : Exists(kv.v)))
    IN  [missing |->
            SelectSeq(declaredPropsToCheck, LAMBDA r : ~Includes(presentProps, r)),
         propsToCheck |->
            SelectSeq(presentProps, LAMBDA p : Includes(declaredPropsToCheck, p)),
         redundant |->
            SelectSeq(presentProps, LAMBDA p : ~Includes(declaredPropsToCheck, p))]

\* a pre-check that lists propsToCheck in the order of the declaration
_validationPreCheckProps_DeclarationOrder(declaredPropsToCheck, options, o) ==
    LET presentProps == KeysOf(SelectSeq(o.e, LAMBDA kv : Exists(kv.v)))
        requiredProps ==
            SelectSeq(declaredPropsToCheck, LAMBDA d : ~Includes(options.optionalProps, d))
    IN  [missing |-> SelectSeq(requiredProps, LAMBDA r : ~Includes(presentProps, r)),
         propsToCheck |->
            SelectSeq(declaredPropsToCheck, LAMBDA d : Includes(presentProps, d)),
         redundant |->
            SelectSeq(presentProps, LAMBDA p : ~Includes(declaredPropsToCheck, p))]

_validationPreCheckProps(declaredPropsToCheck, options, o) ==
    LET optionalProps == options.optionalProps
        requiredProps ==
            SelectSeq(declaredPropsToCheck, LAMBDA d : ~Includes(optionalProps, d))
        presentProps ==
            KeysOf(SelectSeq(o.e, LAMBDA kv : Exists(kv.v)))
        missingRequiredProps ==
            SelectSeq(requiredProps, LAMBDA r : ~Includes(presentProps, r))
        redundantProps ==
            SelectSeq(presentProps, LAMBDA p : ~Includes(declaredPropsToCheck, p))
        propsToCheck ==
            SelectSeq(presentProps, LAMBDA p : Includes(declaredPropsToCheck, p))
    IN  [missing |-> missingRequiredProps,
         propsToCheck |-> propsToCheck,
         redundant |-> redundantProps]

\* one rule of a rule array: the try block and its catch (index.ts 174-185)
ApplyRule(rule, v, ptc, o, i, options, s) ==
    LET rulePass == validator(rule, v, ptc, o)
        message  == msgFactory(rule, v, ptc, o)
        caught(error) ==
            addErr(ptc,
                   errorHandler(options.errorHandler,
                                [key |-> ptc, value |-> v, ruleIndex |-> i,
                                 error |-> error]),
                   s)
    IN  IF rulePass = "throw" THEN [out |-> "throw", s |-> caught("validator threw")]
        ELSE IF rulePass = "true" THEN [out |-> "pass", s |-> s]
        ELSE IF message = "throw"
             THEN [out |-> "throw", s |-> caught("message factory threw")]
        ELSE [out |-> "fail", s |-> addErr(ptc, message, s)]

\* a loop that a throwing rule ends: the try around the loop, not inside it
RECURSIVE RulesLoop_BreakOnThrow(_, _, _, _, _, _, _, _)
RulesLoop_BreakOnThrow(rules, j, v, ptc, o, i, options, acc) ==
    IF j >= Len(rules) THEN acc
    ELSE LET r == ApplyRule(rules[j + 1], v, ptc, o, i, options, acc.s)
             next == [s |-> r.s,
                      log |-> Append(acc.log, Ev("rule", ptc, i, j, r.out, r.s))]
         IN  IF r.out = "throw" THEN next
             ELSE RulesLoop_BreakOnThrow(rules, j + 1, v, ptc, o, i, options, next)

\* for(const rule of keySpec), from rule j on (j counts from 0)
RECURSIVE RulesLoop(_, _, _, _, _, _, _, _)
RulesLoop(rules, j, v, ptc, o, i, options, acc) ==
    IF j >= Len(rules) THEN acc
    ELSE LET r == ApplyRule(rules[j + 1], v, ptc, o, i, options, acc.s)
         IN  RulesLoop(rules, j + 1, v, ptc, o, i, options,
                       [s |-> r.s,
                        log |-> Append(acc.log, Ev("rule", ptc, i, j, r.out, r.s))])

RECURSIVE Validate(_, _)

\* a check that never stops
StopNow_Never(options, s) == FALSE

\* a check that stops on the option alone
StopNow_OptionAlone(options, s) == options.stopAfterInvalid

\* if(options.stopAfterInvalid && !summary.valid) { return summary; }
StopNow(options, s) == options.stopAfterInvalid /\ ~s.valid

\* a loop that hands the Spec's own options down to the nested Spec, which
\* lays its own over them
RECURSIVE PropsLoop_InheritsOptions(_, _, _, _, _, _)
PropsLoop_InheritsOptions(sp, o, options, propsToCheck, i, acc) ==
    IF i >= Len(propsToCheck)
    THEN [s |-> acc.s, log |-> Append(acc.log, Ev("return", "", i, 0, "end", acc.s))]
    ELSE IF StopNow(options, acc.s)
    THEN [s |-> acc.s, log |-> Append(acc.log, Ev("return", "", i, 0, "stop", acc.s))]
    ELSE
        LET ptc == propsToCheck[i + 1]
            keySpec == Get(sp.props, ptc)
            v == Get(o.e, ptc)
            started == [s |-> acc.s,
                        log |-> Append(acc.log, Ev("prop", ptc, i, 0, keySpec.t, acc.s))]
        IN  IF IsOfType("array", keySpec)
            THEN PropsLoop_InheritsOptions(sp, o, options, propsToCheck, i + 1,
                    RulesLoop(keySpec.rules, 0, v, ptc, o, i, options, started))
            ELSE LET nested ==
                        Validate([keySpec EXCEPT !.opts = WithDefault(sp.opts, @)], v)
                     merged == mergeNestedSummary(acc.s, ptc, nested.s)
                 IN  PropsLoop_InheritsOptions(sp, o, options, propsToCheck, i + 1,
                        [s |-> merged,
                         log |-> started.log \o Under(ptc, nested.log)
                                 \o <<Ev("merge", ptc, i, 0, "merged", merged)>>])

\* for(let i = 0; i < propsToCheck.length; i++), from property i on
RECURSIVE PropsLoop(_, _, _, _, _, _)
PropsLoop(sp, o, options, propsToCheck, i, acc) ==
    IF i >= Len(propsToCheck)
    THEN [s |-> acc.s, log |-> Append(acc.log, Ev("return", "", i, 0, "end", acc.s))]
    ELSE IF StopNow(options, acc.s)
    THEN [s |-> acc.s, log |-> Append(acc.log, Ev("return", "", i, 0, "stop", acc.s))]
    ELSE
        LET ptc == propsToCheck[i + 1]
            keySpec == Get(sp.props, ptc)
            v == Get(o.e, ptc)
            started == [s |-> acc.s,
                        log |-> Append(acc.log, Ev("prop", ptc, i, 0, keySpec.t, acc.s))]
        IN  IF IsOfType("array", keySpec)
            THEN PropsLoop(sp, o, options, propsToCheck, i + 1,
                           RulesLoop(keySpec.rules, 0, v, ptc, o, i, options, started))
            ELSE LET nested == Validate(keySpec, v)
                     merged == mergeNestedSummary(acc.s, ptc, nested.s)
                 IN  PropsLoop(sp, o, options, propsToCheck, i + 1,
                               [s |-> merged,
                                log |-> started.log \o Under(ptc, nested.log)
                                        \o <<Ev("merge", ptc, i, 0, "merged", merged)>>])

\* a guard that lets isOptional excuse any non-object
NonObjectGuard_OptionalAny(sp, o) ==
    IF ~("isOptional" \in DOMAIN sp.opts /\ sp.opts.isOptional)
    THEN addErr("_self", "Value must be an object", New)
    ELSE New

\* the branch taken when o is not an object (index.ts 139-144)
NonObjectGuard(sp, o) ==
    IF ~("isOptional" \in DOMAIN sp.opts /\ sp.opts.isOptional) \/ Exists(o)
    THEN addErr("_self", "Value must be an object", New)
    ELSE New

\* a missing block that counts one error per missing property
RECURSIVE MissingBlock_OnePerKey(_, _)
MissingBlock_OnePerKey(s, missing) ==
    IF Len(missing) = 0 THEN s
    ELSE [incErrCount(MissingBlock_OnePerKey(s, Tail(missing)))
            EXCEPT !.missingProperties = missing]

\* if(missing.length) { ... }
MissingBlock(s, missing) ==
    IF Len(missing) # 0
    THEN [incErrCount(s) EXCEPT !.missingProperties = missing]
    ELSE s

\* a redundant block that counts an error whatever redundantIsError says
RedundantBlock_AlwaysError(s, redundant, options) ==
    IF Len(redundant) # 0
    THEN incErrCount([s EXCEPT !.redundantProperties = redundant])
    ELSE s

\* if(redundant.length) { ... }
RedundantBlock(s, redundant, options) ==
    IF Len(redundant) # 0
    THEN LET r == [s EXCEPT !.redundantProperties = redundant]
         IN  IF options.redundantIsError THEN incErrCount(r) ELSE r
    ELSE s

Validate(sp, o) ==
    IF ~IsOfType("object", o)
    THEN LET s == NonObjectGuard(sp, o)
         IN  [s |-> s, log |-> <<Ev("guard", "", 0, 0, o.t, s)>>]
    ELSE
        LET options == WithDefault(_defaultValidationOptions, sp.opts)
            pre == _validationPreCheckProps(KeysOf(sp.props), options, o)
            s1 == MissingBlock(New, pre.missing)
            s2 == RedundantBlock(s1, pre.redundant, options)
        IN  PropsLoop(sp, o, options, pre.propsToCheck, 0,
                      [s |-> s2,
                       log |-> <<Ev("missing", "", 0, 0, "object", s1),
                                 Ev("redundant", "", 0, 0, "object", s2)>>])

-----------------------------------------------------------------------------
(* the inputs.  Property names are "a" and "b"; a Spec declares "a", or "a" *)
(* then "b", and a nested Spec sits under "b" (the code treats all names    *)
(* alike).  The object validated carries the names in either order and may *)
(* hold null; the objects nested in it carry them in the one order and hold *)
(* numbers, strings and objects.                                            *)
(*   - Specs without nesting: any option field set, rule arrays of up to    *)
(*     MaxRules rules under "a" and of up to one rule under "b";            *)
(*   - Specs one level deep: any option field set at either level, rule     *)
(*     arrays of one rule;                                                  *)
(*   - deeper Specs, down to MaxDepth levels: no options, one-rule arrays.  *)

MaxRules == 2

MaxDepth == 2

Keys == {"a", "b"}

IsNumber == [p |-> "number", m |-> "number"]

ThrowingValidator == [p |-> "throw", m |-> "number"]

ThrowingMsgFactory == [p |-> "number", m |-> "throw"]

RuleKinds == {IsNumber, ThrowingValidator, ThrowingMsgFactory}

RuleLists(n) == UNION {[1..l -> RuleKinds] : l \in 0..n}

OptionFields ==
    {"optionalProps", "redundantIsError", "stopAfterInvalid", "errorHandler", "isOptional"}

\* a value other than the default for each field
NonDefault(f) ==
    CASE f = "redundantIsError" -> FALSE
      [] f = "stopAfterInvalid" -> TRUE
      [] f = "errorHandler" -> "custom"
      [] f = "isOptional" -> TRUE

NoOptions == [f \in {} |-> TRUE]

\* the options slots tried: absent, or one field set
OptionSlots ==
    {NoOptions}
    \cup {[f \in {"optionalProps"} |-> <<k>>] : k \in Keys}
    \cup {[g \in {f} |-> NonDefault(f)] : f \in OptionFields \ {"optionalProps"}}

RuleArray(rules) == [t |-> "array", rules |-> rules]

SpecNode(props, opts) == [t |-> "object", props |-> props, opts |-> opts]

Prop(k, v) == [k |-> k, v |-> v]

\* Specs nested d levels deep: the innermost Spec takes its rule arrays from
\* listsA and listsB, the ones around it take theirs from outer
RECURSIVE Chain(_, _, _, _, _)
Chain(d, slots, listsA, listsB, outer) ==
    IF d = 0
    THEN {SpecNode(ps, o) :
            ps \in {<<>>}
                \cup {<<Prop("a", RuleArray(r))>> : r \in listsA}
                \cup {<<Prop("a", RuleArray(r1)), Prop("b", RuleArray(r2))>> :
                        r1 \in listsA, r2 \in listsB},
            o \in slots}
    ELSE {SpecNode(ps, o) :
            ps \in UNION {
                    {<<Prop("b", c)>>}
                    \cup {<<Prop("a", RuleArray(r)), Prop("b", c)>> : r \in outer} :
                    c \in Chain(d - 1, slots, listsA, listsB, outer)},
            o \in slots}

Specs ==
    Chain(0, OptionSlots, RuleLists(MaxRules), RuleLists(1), {})
    \cup Chain(1, OptionSlots, {<<IsNumber>>, <<ThrowingValidator>>}, {<<IsNumber>>},
               {<<IsNumber>>})
    \cup UNION {Chain(d, {NoOptions}, {<<IsNumber>>}, {<<IsNumber>>}, {<<IsNumber>>}) :
                    d \in 2..MaxDepth}

RECURSIVE Depth(_)
Depth(sp) ==
    IF \E i \in 1..Len(sp.props) : sp.props[i].v.t = "object"
    THEN 1 + Depth(Get(sp.props, "b"))
    ELSE 0

Leaf(t) == [t |-> t, e |-> <<>>]

Leaves == {Leaf("number"), Leaf("string"), Leaf("null")}

NonObjects == Leaves \cup {Leaf("undefined"), Leaf("array")}

NestedLeaves == {Leaf("number"), Leaf("string")}

Object(e) == [t |-> "object", e |-> e]

\* the objects found under "b", themselves nested up to d levels deep
RECURSIVE NestedObjects(_)
NestedObjects(d) ==
    LET underB == IF d > 0 THEN NestedLeaves \cup NestedObjects(d - 1) ELSE NestedLeaves
    IN  {Object(<<>>)}
        \cup {Object(<<Prop("a", x)>>) : x \in NestedLeaves}
        \cup {Object(<<Prop("b", y)>>) : y \in underB}
        \cup {Object(<<Prop("a", x), Prop("b", y)>>) : x \in NestedLeaves, y \in underB}

\* objects nested up to d levels deep, the nested object under "b"
Objects(d) ==
    LET underB == IF d > 0 THEN Leaves \cup NestedObjects(d - 1) ELSE Leaves
    IN  {Object(<<>>)}
        \cup {Object(<<Prop("a", x)>>) : x \in Leaves}
        \cup {Object(<<Prop("b", y)>>) : y \in underB}
        \cup {Object(<<Prop("a", x), Prop("b", y)>>) : x \in Leaves, y \in underB}
        \cup {Object(<<Prop("b", y), Prop("a", x)>>) : x \in Leaves, y \in underB}

\* property names that hold a "." next to the nested Spec under "b", and the
\* name of the entry that a non-object is reported under
DottedKeys == {"b.a", "b._self", "_self"}

\* Specs with one such property, then the nested Spec under "b"
DottedSpecs ==
    {SpecNode(<<Prop(d, RuleArray(r1)),
                Prop("b", SpecNode(<<Prop("a", RuleArray(r2))>>, NoOptions))>>, o) :
        d \in DottedKeys,
        r1 \in RuleLists(2) \ {<<>>},
        r2 \in {<<IsNumber>>, <<ThrowingValidator>>},
        o \in {NoOptions, [stopAfterInvalid |-> TRUE]}}

\* the objects tried on them: the two properties in either order
DottedValues(sp) ==
    LET d == sp.props[1].k
        underB == NestedLeaves \cup {Object(<<>>)}
                    \cup {Object(<<Prop("a", x)>>) : x \in NestedLeaves}
    IN  UNION {{Object(<<Prop(d, x), Prop("b", y)>>),
                Object(<<Prop("b", y), Prop(d, x)>>)} :
                    x \in NestedLeaves, y \in underB}

\* an object with d objects nested under "b" below it
RECURSIVE Tower(_)
Tower(d) ==
    IF d = 0 THEN Object(<<Prop("a", Leaf("number"))>>)
    ELSE Object(<<Prop("b", Tower(d - 1))>>)

\* objects nested deeper than Spec sp: under "a", where sp has a rule array
\* or nothing, and under "b", down past the innermost Spec
DeeperObjects(sp) ==
    {Object(<<Prop("a", Tower(Depth(sp) + 1))>>),
     Object(<<Prop("b", Tower(Depth(sp) + 1))>>)}

\* the values tried on Spec sp: the non-objects, objects as deep as sp, and
\* two that are deeper
ValuesFor(sp) ==
    IF sp \in DottedSpecs THEN DottedValues(sp)
    ELSE NonObjects \cup Objects(Depth(sp)) \cup DeeperObjects(sp)

-----------------------------------------------------------------------------
(* the program: a Spec is written, then values are validated against it.   *)
(* spec and value are the two objects as they are in memory, summary the    *)
(* object the latest call returned, earlier the objects that the calls      *)
(* before it returned, as their callers hold them.  extension is the        *)
(* extension Spec handed to Extend with spec as the parent, extended the    *)
(* Spec that Extend returned.                                               *)

\* a call that stores the options it resolved in the Spec's options slot
AfterValidate_OptionsWrittenBack(sp, o) ==
    [spec |-> [sp EXCEPT !.opts = WithDefault(_defaultValidationOptions, @)],
     o |-> o]

\* the two arguments as a call leaves them: Validate assigns to the fields of
\* the summaries it creates and to nothing else; options is a new object
AfterValidate(sp, o) == [spec |-> sp, o |-> o]

Init ==
    /\ spec \in Specs
    /\ value = Leaf("undefined")
    /\ summary = New
    /\ log = <<>>
    /\ pc = "ready"
    /\ earlier = <<>>
    /\ extension = Leaf("undefined")
    /\ extended = Leaf("undefined")

CallValidate ==
    /\ pc = "ready"
    /\ \E o \in ValuesFor(spec) :
        LET r == Validate(spec, o)
        IN  /\ value' = AfterValidate(spec, o).o
            /\ summary' = r.s
            /\ log' = r.log
            /\ spec' = AfterValidate(spec, o).spec
    /\ pc' = "done"
    /\ earlier' = earlier
    /\ UNCHANGED <<extension, extended>>

Next == CallValidate

Spec == Init /\ [][Next]_vars

\* the same Spec and value validated a second time
ValidateAgain ==
    /\ pc = "done"
    /\ LET r == Validate(spec, value)
       IN  /\ summary' = r.s
           /\ log' = r.log
           /\ spec' = AfterValidate(spec, value).spec
           /\ value' = AfterValidate(spec, value).o
    /\ earlier' = Append(earlier, summary)
    /\ pc' = "again"
    /\ UNCHANGED <<extension, extended>>

NextRepeat == CallValidate \/ ValidateAgain

SpecRepeat == Init /\ [][NextRepeat]_vars

\* the Spec written has a property name with a "." in it, or "_self"
InitDotted ==
    /\ spec \in DottedSpecs
    /\ value = Leaf("undefined")
    /\ summary = New
    /\ log = <<>>
    /\ pc = "ready"
    /\ earlier = <<>>
    /\ extension = Leaf("undefined")
    /\ extended = Leaf("undefined")

SpecDotted == InitDotted /\ [][Next]_vars

-----------------------------------------------------------------------------
(* Extend.  obj.Impose is fp-way-core's; index.ts holds its two calls only. *)
(* It is taken to return a new object that holds the properties of its     *)
(* second argument with those of the first laid over them, a property of    *)
(* the first replacing the one of the same name whole, and to leave both    *)
(* arguments as they were.                                                  *)

\* obj.Impose(top, base) on Specs, as entry lists
RECURSIVE Impose(_, _)
Impose(top, base) ==
    IF Len(top) = 0 THEN base
    ELSE Impose(Tail(top), SetKey(base, Head(top).k, Head(top).v))

\* obj.Impose(top, base) on options objects, as records
ImposeOptions(top, base) ==
    [f \in (DOMAIN top) \cup (DOMAIN base) |->
        IF f \in DOMAIN top THEN top[f] ELSE base[f]]

\* an Extend that deletes nothing
Extend_KeepsOmitted(ext_spec, parent_spec) ==
    LET new_spec == Impose(ext_spec.props, parent_spec.props)
        new_options == ImposeOptions(ext_spec.opts, parent_spec.opts)
    IN  [new_spec |->
            SpecNode(new_spec,
                     [f \in (DOMAIN new_options) \ {"omitKeys"} |-> new_options[f]]),
         ext_spec |-> ext_spec,
         parent_spec |-> parent_spec]

\* an Extend that lays the parent's options over the extension's
Extend_ParentOptionsWin(ext_spec, parent_spec) ==
    LET new_spec == Impose(ext_spec.props, parent_spec.props)
        new_options == ImposeOptions(parent_spec.opts, ext_spec.opts)
        omitKeys ==
            IF "omitKeys" \in DOMAIN new_options THEN new_options.omitKeys ELSE <<>>
    IN  [new_spec |->
            SpecNode(SelectSeq(new_spec, LAMBDA kv : ~Includes(omitKeys, kv.k)),
                     [f \in (DOMAIN new_options) \ {"omitKeys"} |-> new_options[f]]),
         ext_spec |-> ext_spec,
         parent_spec |-> parent_spec]

\* an Extend that works on the parent itself: Object.assign(parent_spec, ext_spec)
Extend_InPlace(ext_spec, parent_spec) ==
    LET new_spec == Impose(ext_spec.props, parent_spec.props)
        new_options == ImposeOptions(ext_spec.opts, parent_spec.opts)
        omitKeys ==
            IF "omitKeys" \in DOMAIN new_options THEN new_options.omitKeys ELSE <<>>
        result ==
            SpecNode(SelectSeq(new_spec, LAMBDA kv : ~Includes(omitKeys, kv.k)),
                     [f \in (DOMAIN new_options) \ {"omitKeys"} |-> new_options[f]])
    IN  [new_spec |-> result, ext_spec |-> ext_spec, parent_spec |-> result]

\* Extend(ext_spec, parent_spec): the Spec returned, and the two arguments as
\* the call leaves them (new_spec and new_options, the objects the two deletes
\* and the assignment work on, are Impose's new objects)
Extend(ext_spec, parent_spec) ==
    LET new_spec == Impose(ext_spec.props, parent_spec.props)
        new_options == ImposeOptions(ext_spec.opts, parent_spec.opts)
        omitKeys ==
            IF "omitKeys" \in DOMAIN new_options THEN new_options.omitKeys ELSE <<>>
    IN  [new_spec |->
            SpecNode(SelectSeq(new_spec, LAMBDA kv : ~Includes(omitKeys, kv.k)),
                     [f \in (DOMAIN new_options) \ {"omitKeys"} |-> new_options[f]]),
         ext_spec |-> ext_spec,
         parent_spec |-> parent_spec]

\* the property names of an extension and its parent
ExtendKeys == Keys \cup {"c"}

\* the parent Specs: one-rule arrays, any option field set, and under "b" a
\* rule array or a nested Spec
ParentSpecs ==
    Chain(0, OptionSlots, {<<IsNumber>>}, {<<IsNumber>>}, {})
    \cup Chain(1, {NoOptions, [isOptional |-> TRUE]}, {<<IsNumber>>}, {<<IsNumber>>},
               {<<IsNumber>>})

\* the extension Specs: under "a" a rule array, under "b" a rule array or a
\* nested Spec, under "c" a rule array, each of them or none; optionalProps
\* and omitKeys always given, and one more option field or none
ExtentionProps ==
    LET forA == {<<>>, <<Prop("a", RuleArray(<<ThrowingValidator>>))>>}
        forB == {<<>>,
                 <<Prop("b", RuleArray(<<IsNumber, IsNumber>>))>>,
                 <<Prop("b", SpecNode(<<Prop("c", RuleArray(<<IsNumber>>))>>,
                                      [stopAfterInvalid |-> TRUE]))>>}
        forC == {<<>>, <<Prop("c", RuleArray(<<IsNumber>>))>>}
    IN  {a \o b \o c : a \in forA, b \in forB, c \in forC}

ExtentionOptions ==
    {ImposeOptions([optionalProps |-> op, omitKeys |-> om], more) :
        op \in {<<>>, <<"a">>, <<"c">>},
        om \in {<<>>, <<"a">>, <<"c">>, <<"a", "b">>},
        more \in OptionSlots \ {[f \in {"optionalProps"} |-> <<k>>] : k \in Keys}}

ExtentionSpecs == {SpecNode(ps, o) : ps \in ExtentionProps, o \in ExtentionOptions}

InitExtend ==
    /\ spec \in ParentSpecs
    /\ extension \in ExtentionSpecs
    /\ extended = Leaf("undefined")
    /\ value = Leaf("undefined")
    /\ summary = New
    /\ log = <<>>
    /\ pc = "ready"
    /\ earlier = <<>>

CallExtend ==
    /\ pc = "ready"
    /\ LET r == Extend(extension, spec)
       IN  /\ extended' = r.new_spec
           /\ extension' = r.ext_spec
           /\ spec' = r.parent_spec
    /\ pc' = "extended"
    /\ UNCHANGED <<value, summary, log, earlier>>

NextExtend == CallExtend

SpecExtend == InitExtend /\ [][NextExtend]_vars

-----------------------------------------------------------------------------
(* reading the record of a call *)

Done == pc = "done"

\* the Spec node and the value that the call at `path` was made on
RECURSIVE SpecAt(_, _)
SpecAt(sp, path) ==
    IF path = <<>> THEN sp ELSE SpecAt(Get(sp.props, Head(path)), Tail(path))

RECURSIVE ValueAt(_, _)
ValueAt(o, path) ==
    IF path = <<>> THEN o ELSE ValueAt(Get(o.e, Head(path)), Tail(path))

Events(ev) == {n \in 1..Len(log) : log[n].ev = ev}

\* the optionalProps the Spec node's author wrote, none when the field is unset
DeclaredOptional(sp) ==
    IF "optionalProps" \in DOMAIN sp.opts THEN sp.opts.optionalProps ELSE <<>>

OptionSet(sp, f) == f \in DOMAIN sp.opts /\ sp.opts[f] = TRUE

\* property k of object o has a value other than null and undefined
Present(o, k) == HasKey(o.e, k) /\ Get(o.e, k).t \notin {"null", "undefined"}

-----------------------------------------------------------------------------
(* C1: every summary Validate holds or returns, at the root and in every    *)
(* nested call, before and after each merge, is valid exactly when its      *)
(* errorCount is 0.                                                         *)

Consistent(s) == s.valid <=> (s.errorCount = 0)

C1_ValidIffNoErrors ==
    /\ Consistent(summary)
    /\ \A n \in 1..Len(log) : Consistent(log[n].s)

\* a parent that was valid until an invalid child was merged into it
C1_Witness ==
    /\ Done
    /\ \E n \in Events("merge") :
        /\ ~log[n].s.valid
        /\ ~log[n - 1].s.valid
        /\ \E m \in Events("prop") :
            /\ log[m].path = log[n].path
            /\ log[m].key = log[n].key
            /\ log[m].s.valid

-----------------------------------------------------------------------------
(* C2: an object that has every non-optional declared property, no          *)
(* undeclared one, passes every rule and whose nested objects do the same   *)
(* gets the summary of a valid object: valid, errorCount 0, nothing         *)
(* missing, nothing redundant, no errors.                                   *)

RECURSIVE Conforms(_, _)
Conforms(sp, o) ==
    /\ o.t = "object"
    /\ \A i \in 1..Len(sp.props) :
        Includes(DeclaredOptional(sp), sp.props[i].k) \/ Present(o, sp.props[i].k)
    /\ \A i \in 1..Len(o.e) :
        Present(o, o.e[i].k) =>
            /\ HasKey(sp.props, o.e[i].k)
            /\ LET d == Get(sp.props, o.e[i].k)
               IN  IF d.t = "array"
                   THEN \A j \in 1..Len(d.rules) :
                            validator(d.rules[j], o.e[i].v, o.e[i].k, o) = "true"
                   ELSE Conforms(d, o.e[i].v)

C2_ValidObjectValidSummary ==
    (Done /\ Conforms(spec, value)) => summary = New

\* a conforming object with a nested object, a rule that ran and an optional
\* property left out
C2_Witness ==
    /\ Done
    /\ Conforms(spec, value)
    /\ Events("merge") # {}
    /\ \E n \in Events("rule") : log[n].out = "pass"
    /\ \E n \in Events("missing") :
        LET sp == SpecAt(spec, log[n].path)
        IN  \E i \in 1..Len(sp.props) : ~Present(ValueAt(value, log[n].path), sp.props[i].k)

-----------------------------------------------------------------------------
(* C3: in each call on an object, missingProperties is set to the declared  *)
(* properties that are not in optionalProps and have no value (absent, null *)
(* or undefined), in declaration order, and a non-empty list counts as one  *)
(* error however long it is.                                                *)

ExpectedMissing(sp, o) ==
    SelectSeq(KeysOf(sp.props),
              LAMBDA k : ~Includes(DeclaredOptional(sp), k) /\ ~Present(o, k))

C3_MissingOnceInOrder ==
    \A n \in Events("missing") :
        LET want == ExpectedMissing(SpecAt(spec, log[n].path), ValueAt(value, log[n].path))
        IN  /\ log[n].s.missingProperties = want
            /\ log[n].s.errorCount = IF want = <<>> THEN 0 ELSE 1
            /\ log[n].s.valid = (want = <<>>)

\* two properties missing at once
C3_Witness ==
    /\ Done
    /\ \E n \in Events("missing") :
        /\ Len(log[n].s.missingProperties) = 2
        /\ log[n].s.errorCount = 1

-----------------------------------------------------------------------------
(* C4: in each call on an object, redundantProperties is set to the keys of *)
(* the object that hold a value other than null and undefined and are not   *)
(* declared; a non-empty list counts as one error and makes the summary     *)
(* invalid when redundantIsError is true or unset, and changes neither      *)
(* errorCount nor valid when it is false.                                   *)

ExpectedRedundant(sp, o) ==
    SelectSeq(KeysOf(o.e), LAMBDA k : Present(o, k) /\ ~HasKey(sp.props, k))

RedundantNotAnError(sp) ==
    "redundantIsError" \in DOMAIN sp.opts /\ sp.opts.redundantIsError = FALSE

C4_RedundantListedCountedOnce ==
    \A n \in Events("redundant") :
        LET sp == SpecAt(spec, log[n].path)
            want == ExpectedRedundant(sp, ValueAt(value, log[n].path))
            before == log[n - 1].s
            after == log[n].s
        IN  /\ log[n - 1].ev = "missing"
            /\ after.redundantProperties = want
            /\ after.errorCount =
                before.errorCount
                + (IF want # <<>> /\ ~RedundantNotAnError(sp) THEN 1 ELSE 0)
            /\ after.valid =
                (before.valid /\ (want = <<>> \/ RedundantNotAnError(sp)))

\* a parent that lists a redundant property without counting it, over a child
\* that counts its own
C4_Witness ==
    /\ Done
    /\ \E n, m \in Events("redundant") :
        /\ log[n].s.redundantProperties # <<>>
        /\ log[n].s.valid
        /\ log[m].s.redundantProperties # <<>>
        /\ log[m].s.errorCount = log[m - 1].s.errorCount + 1

-----------------------------------------------------------------------------
(* C5: a rule is invoked, and a nested Spec entered, only for a property    *)
(* that the Spec declares and that holds a value other than null and        *)
(* undefined; an optional property without a value is not reported missing. *)

C5_OnlyDeclaredPresentEvaluated ==
    /\ \A n \in Events("prop") \cup Events("rule") :
        /\ HasKey(SpecAt(spec, log[n].path).props, log[n].key)
        /\ Present(ValueAt(value, log[n].path), log[n].key)
    /\ \A n \in Events("missing") :
        \A i \in 1..Len(log[n].s.missingProperties) :
            ~Includes(DeclaredOptional(SpecAt(spec, log[n].path)),
                      log[n].s.missingProperties[i])

\* an optional property holding null is skipped while the other one is checked
C5_Witness ==
    /\ Done
    /\ \E n \in Events("rule") :
        LET sp == SpecAt(spec, log[n].path)
            o == ValueAt(value, log[n].path)
        IN  \E i \in 1..Len(sp.props) :
                /\ Includes(DeclaredOptional(sp), sp.props[i].k)
                /\ HasKey(o.e, sp.props[i].k)
                /\ ~Present(o, sp.props[i].k)
                /\ sp.props[i].v.t = "array"
                /\ sp.props[i].v.rules # <<>>

-----------------------------------------------------------------------------
(* C6: a value that is not an object is not traversed: the call records one *)
(* "_self" message, errorCount 1, invalid -- except that null or undefined  *)
(* under a Spec with isOptional true gives the summary of a valid object.   *)

SelfError ==
    [valid |-> FALSE,
     errorCount |-> 1,
     missingProperties |-> <<>>,
     redundantProperties |-> <<>>,
     errors |-> <<[k |-> "_self", v |-> <<"Value must be an object">>]>>]

ExpectedOfNonObject(sp, o) ==
    IF OptionSet(sp, "isOptional") /\ o.t \in {"null", "undefined"} THEN New ELSE SelfError

C6_NonObjectSelfError ==
    /\ \A n \in Events("guard") :
        log[n].s = ExpectedOfNonObject(SpecAt(spec, log[n].path),
                                       ValueAt(value, log[n].path))
    /\ (Done /\ value.t # "object") =>
        /\ Len(log) = 1
        /\ log[1].ev = "guard"
        /\ summary = ExpectedOfNonObject(spec, value)
    /\ \A n \in 1..Len(log) :
        log[n].ev # "guard" => ValueAt(value, log[n].path).t = "object"

\* an array given to a Spec whose isOptional is true
C6_Witness ==
    /\ Done
    /\ value.t = "array"
    /\ OptionSet(spec, "isOptional")
    /\ Len(spec.props) = 2
    /\ summary = SelfError

-----------------------------------------------------------------------------
(* C7: merging the summary of the nested Spec under k: valid is the         *)
(* conjunction, errorCount the sum, the child's missing and redundant       *)
(* entries are appended with "k." in front, each child errors entry is      *)
(* stored under "k.<childKey>", and the prefixes compose across levels.     *)

Prefixed(k, xs) == [i \in 1..Len(xs) |-> k \o "." \o xs[i]]

RECURSIVE Dotted(_)
Dotted(path) ==
    IF Len(path) = 1 THEN path[1] ELSE path[1] \o "." \o Dotted(Tail(path))

\* the "prop" event that opened the property whose merge is event n
PropEventOf(n) ==
    CHOOSE m \in Events("prop") :
        /\ m < n
        /\ log[m].path = log[n].path
        /\ log[m].key = log[n].key

C7_MergePrefixesChild ==
    /\ \A n \in Events("merge") :
        LET k == log[n].key
            before == log[PropEventOf(n)].s
            child == log[n - 1].s
            after == log[n].s
        IN  /\ log[n - 1].path = log[n].path \o <<k>>
            /\ log[n - 1].ev \in {"return", "guard"}
            /\ after.valid = (before.valid /\ child.valid)
            /\ after.errorCount = before.errorCount + child.errorCount
            /\ after.missingProperties =
                before.missingProperties \o Prefixed(k, child.missingProperties)
            /\ after.redundantProperties =
                before.redundantProperties \o Prefixed(k, child.redundantProperties)
            /\ \A i \in 1..Len(child.errors) :
                /\ HasKey(after.errors, k \o "." \o child.errors[i].k)
                /\ Get(after.errors, k \o "." \o child.errors[i].k) = child.errors[i].v
    /\ \A n \in Events("rule") :
        log[n].out # "pass" =>
            HasKey(summary.errors, Dotted(log[n].path \o <<log[n].key>>))
    /\ \A n \in Events("guard") :
        (log[n].path # <<>> /\ ~log[n].s.valid) =>
            HasKey(summary.errors, Dotted(log[n].path \o <<"_self">>))

\* an error two levels down, a property missing and one redundant on the way
C7_Witness ==
    /\ Done
    /\ HasKey(summary.errors, "b.b.a")
    /\ \E i \in 1..Len(summary.missingProperties) : summary.missingProperties[i] = "b.a"
    /\ \E i \in 1..Len(summary.redundantProperties) :
        summary.redundantProperties[i] = "b.b.b"

-----------------------------------------------------------------------------
(* C8: a rule whose validator or message factory throws does not end the    *)
(* call: the message of the Spec node's errorHandler is appended to         *)
(* errors[prop], errorCount grows by 1, the summary is invalid, and the     *)
(* other rules and properties are evaluated as if the rule had failed.      *)

ResolvedHandler(sp) ==
    IF "errorHandler" \in DOMAIN sp.opts THEN sp.opts.errorHandler ELSE "default"

Thrown == {"validator threw", "message factory threw"}

ListAt(es, k) == IF HasKey(es, k) THEN Get(es, k) ELSE <<>>

Without(es, k) == SelectSeq(es, LAMBDA kv : kv.k # k)

\* the Spec with each throwing rule replaced by one that fails where it threw
FailingInstead(rule) ==
    [p |-> IF rule.p = "throw" THEN "never" ELSE rule.p,
     m |-> IF rule.m = "throw" THEN "number" ELSE rule.m]

RECURSIVE Unthrow(_)
Unthrow(x) ==
    IF x.t = "array"
    THEN RuleArray([j \in 1..Len(x.rules) |-> FailingInstead(x.rules[j])])
    ELSE SpecNode([i \in 1..Len(x.props) |-> Prop(x.props[i].k, Unthrow(x.props[i].v))],
                  x.opts)

\* what was done, step by step, a throw read as a failure
Steps(l) ==
    [n \in 1..Len(l) |->
        <<l[n].ev, l[n].path, l[n].key, l[n].i, l[n].j,
          IF l[n].out = "throw" THEN "fail" ELSE l[n].out,
          l[n].s.valid, l[n].s.errorCount>>]

Counts(s) ==
    [valid |-> s.valid,
     errorCount |-> s.errorCount,
     missingProperties |-> s.missingProperties,
     redundantProperties |-> s.redundantProperties,
     errors |-> [i \in 1..Len(s.errors) |-> <<s.errors[i].k, Len(s.errors[i].v)>>]]

C8_ThrowIsRecordedNotFatal ==
    /\ \A n \in Events("rule") :
        log[n].out = "throw" =>
            LET k == log[n].key
                before == log[n - 1].s
                after == log[n].s
                h == ResolvedHandler(SpecAt(spec, log[n].path))
                v == Get(ValueAt(value, log[n].path).e, k)
            IN  /\ log[n - 1].path = log[n].path
                /\ after.errorCount = before.errorCount + 1
                /\ ~after.valid
                /\ Len(ListAt(after.errors, k)) = Len(ListAt(before.errors, k)) + 1
                /\ SubSeq(ListAt(after.errors, k), 1, Len(ListAt(before.errors, k)))
                    = ListAt(before.errors, k)
                /\ \E r \in 0..Len(log), x \in Thrown :
                    ListAt(after.errors, k)[Len(ListAt(after.errors, k))]
                        = errorHandler(h, [key |-> k, value |-> v, ruleIndex |-> r,
                                           error |-> x])
                /\ Without(after.errors, k) = Without(before.errors, k)
                /\ after.missingProperties = before.missingProperties
                /\ after.redundantProperties = before.redundantProperties
    /\ Done =>
        LET r == Validate(Unthrow(spec), value)
        IN  /\ Steps(r.log) = Steps(log)
            /\ Counts(r.s) = Counts(summary)

\* the first of two rules throws, the second still runs, and so does the
\* other property
C8_Witness ==
    /\ Done
    /\ \E n \in Events("rule") :
        /\ log[n].out = "throw"
        /\ n + 2 <= Len(log)
        /\ log[n + 1].ev = "rule"
        /\ log[n + 1].key = log[n].key
        /\ log[n + 2].ev = "prop"
        /\ log[n + 2].path = log[n].path

-----------------------------------------------------------------------------
(* C9: under stopAfterInvalid the summary is checked before each property   *)
(* of propsToCheck and the call returns at the first check that finds it    *)
(* invalid: no property is evaluated after that, and none at all when the   *)
(* missing or redundant block already made it invalid.                      *)

\* the events of the call that event n belongs to, from n + 1 on
LaterInCall(n) == {m \in (n + 1)..Len(log) : log[m].path = log[n].path}

\* the event following n in its call (n is not the call's return)
NextInCall(n) == CHOOSE m \in LaterInCall(n) : \A x \in LaterInCall(n) : m <= x

C9_StopsAtFirstInvalidCheck ==
    /\ \A n \in Events("prop") :
        OptionSet(SpecAt(spec, log[n].path), "stopAfterInvalid") => log[n].s.valid
    /\ \A n \in Events("rule") \cup Events("merge") \cup Events("redundant") :
        (/\ OptionSet(SpecAt(spec, log[n].path), "stopAfterInvalid")
         /\ ~log[n].s.valid
         /\ log[NextInCall(n)].ev # "rule") =>
            /\ log[NextInCall(n)].ev = "return"
            /\ log[NextInCall(n)].s = log[n].s
    /\ \A n \in Events("redundant") :
        (OptionSet(SpecAt(spec, log[n].path), "stopAfterInvalid") /\ ~log[n].s.valid) =>
            /\ log[n + 1].ev = "return"
            /\ log[n + 1].s.errors = <<>>
    /\ \A n \in Events("return") :
        /\ log[n].out = "stop" =>
            /\ OptionSet(SpecAt(spec, log[n].path), "stopAfterInvalid")
            /\ ~log[n].s.valid
        /\ LaterInCall(n) = {}
    /\ Done => summary = log[Len(log)].s

\* the first property fails and the second, present and declared, is left out
C9_Witness ==
    /\ Done
    /\ \E n \in Events("return") :
        /\ log[n].out = "stop"
        /\ log[n].i = 1
        /\ log[n].s.errors # <<>>

\* the pre-check alone stops the call
C9_WitnessPreCheck ==
    /\ Done
    /\ \E n \in Events("return") :
        /\ log[n].out = "stop"
        /\ log[n].i = 0
        /\ log[n].s.missingProperties # <<>>
        /\ log[n].s.errors = <<>>

-----------------------------------------------------------------------------
(* C10: with stopAfterInvalid set at any Spec nodes the verdict is the one  *)
(* of the same Spec with it set nowhere, and errorCount is no larger.       *)

RECURSIVE NoStop(_)
NoStop(x) ==
    IF x.t = "array" THEN x
    ELSE SpecNode([i \in 1..Len(x.props) |-> Prop(x.props[i].k, NoStop(x.props[i].v))],
                  [f \in (DOMAIN x.opts) \ {"stopAfterInvalid"} |-> x.opts[f]])

C10_StopKeepsVerdict ==
    Done =>
        LET full == Validate(NoStop(spec), value).s
        IN  /\ summary.valid = full.valid
            /\ summary.errorCount <= full.errorCount

\* a call that stopped short of errors the full evaluation finds
C10_Witness ==
    /\ Done
    /\ NoStop(spec) # spec
    /\ summary.errorCount < Validate(NoStop(spec), value).s.errorCount

-----------------------------------------------------------------------------
(* C11: a call changes neither the Spec (its options slot included) nor the *)
(* validated value, a second call on the same Spec and value returns a      *)
(* summary equal to the first, and the summary the first call returned is   *)
(* as it was after the second.                                              *)

-----------------------------------------------------------------------------
(* C12: in Extend(ext, parent) no key of ext's omitKeys is a property of    *)
(* the result, declared in ext or not; any other property of ext is in the  *)
(* result with ext's entry, whatever the parent had under the name; any     *)
(* other property of the parent alone is in the result with the parent's    *)
(* entry.                                                                   *)

Omitted(k) == Includes(extension.opts.omitKeys, k)

C12_ExtendOverridesCarriesOmits ==
    [][pc = "ready" =>
        \A k \in ExtendKeys :
            /\ Omitted(k) => ~HasKey(extended'.props, k)
            /\ (~Omitted(k) /\ HasKey(extension.props, k)) =>
                    /\ HasKey(extended'.props, k)
                    /\ Get(extended'.props, k) = Get(extension.props, k)
            /\ (~Omitted(k) /\ ~HasKey(extension.props, k) /\ HasKey(spec.props, k)) =>
                    /\ HasKey(extended'.props, k)
                    /\ Get(extended'.props, k) = Get(spec.props, k)]_vars

\* "a" carried over from the parent, the parent's nested Spec under "b"
\* replaced by the extension's, "c" declared by the extension and omitted
C12_Witness ==
    /\ pc = "extended"
    /\ extension.opts.omitKeys = <<"c">>
    /\ HasKey(extension.props, "c")
    /\ HasKey(spec.props, "b") /\ Get(spec.props, "b").t = "object"
    /\ HasKey(extension.props, "b") /\ Get(extension.props, "b").t = "object"
    /\ ~HasKey(extension.props, "a")
    /\ KeysOf(extended.props) = <<"a", "b">>
    /\ Get(extended.props, "b") # Get(spec.props, "b")

-----------------------------------------------------------------------------
(* C13: the options of Extend(ext, parent) hold the optionalProps that ext  *)
(* gave, the empty list included, hold no omitKeys, and hold for each other *)
(* field ext's value when ext set it, else the parent's when the parent set *)
(* it, else nothing.                                                        *)

C13_ExtendOptions ==
    [][pc = "ready" =>
        /\ extended'.opts.optionalProps = extension.opts.optionalProps
        /\ "omitKeys" \notin DOMAIN extended'.opts
        /\ \A f \in OptionFields \ {"optionalProps"} :
            /\ f \in DOMAIN extension.opts =>
                    /\ f \in DOMAIN extended'.opts
                    /\ extended'.opts[f] = extension.opts[f]
            /\ (f \notin DOMAIN extension.opts /\ f \in DOMAIN spec.opts) =>
                    /\ f \in DOMAIN extended'.opts
                    /\ extended'.opts[f] = spec.opts[f]
            /\ (f \notin DOMAIN extension.opts /\ f \notin DOMAIN spec.opts) =>
                    f \notin DOMAIN extended'.opts]_vars

\* the extension gives the empty list where the parent had one optional
\* property, and the parent's isOptional is carried over
C13_Witness ==
    /\ pc = "extended"
    /\ extension.opts.optionalProps = <<>>
    /\ DeclaredOptional(spec) # <<>>
    /\ extended.opts.optionalProps = <<>>

\* a field of the parent's options carried over next to one the extension set
C13_WitnessCarried ==
    /\ pc = "extended"
    /\ OptionSet(spec, "isOptional")
    /\ OptionSet(extension, "stopAfterInvalid")
    /\ OptionSet(extended, "isOptional")
    /\ OptionSet(extended, "stopAfterInvalid")

-----------------------------------------------------------------------------
(* C14: Extend leaves the parent Spec and the extension Spec as they were,  *)
(* properties and options slot: the parent keeps the properties named in    *)
(* omitKeys and gains none, the extension's options keep omitKeys.          *)

-----------------------------------------------------------------------------
(* C15: when property k of the Spec is a nested Spec with isOptional set    *)
(* and the validated object holds null, undefined or nothing under k, the   *)
(* summary lists no missing property k and holds no errors entry "k._self", *)
(* whether k is among the Spec's optionalProps or not.                      *)

\* the properties of Spec sp that are nested Specs with isOptional set
OptionalNested(sp) ==
    {k \in Keys : /\ HasKey(sp.props, k)
                  /\ Get(sp.props, k).t = "object"
                  /\ OptionSet(Get(sp.props, k), "isOptional")}

C15_NestedIsOptionalExcusesAbsence ==
    (Done /\ value.t = "object") =>
        \A k \in OptionalNested(spec) :
            ~Present(value, k) =>
                /\ ~Includes(summary.missingProperties, k)
                /\ ~HasKey(summary.errors, k \o "._self")

-----------------------------------------------------------------------------
(* C16: when rule j (counted from 0) of the rule list of property k throws, *)
(* the message recorded is the one errorHandler gives for key k, the value  *)
(* under k, the exception thrown and ruleIndex j.                           *)

C16_HandlerGetsRuleIndex ==
    \A n \in Events("rule") :
        log[n].out = "throw" =>
            LET k == log[n].key
                msgs == Get(log[n].s.errors, k)
                h == ResolvedHandler(SpecAt(spec, log[n].path))
                v == Get(ValueAt(value, log[n].path).e, k)
            IN  \E x \in Thrown :
                    msgs[Len(msgs)] =
                        errorHandler(h, [key |-> k, value |-> v, ruleIndex |-> log[n].j,
                                         error |-> x])

-----------------------------------------------------------------------------
(* C17: the errorCount of a returned summary is the number of messages in   *)
(* its errors, plus the number of calls (Spec nodes visited) that found     *)
(* properties missing, plus the number of calls that found redundant        *)
(* properties under a redundantIsError that is true.                        *)

RECURSIVE Messages(_)
Messages(es) == IF Len(es) = 0 THEN 0 ELSE Len(Head(es).v) + Messages(Tail(es))

ResolvedRedundantIsError(sp) ==
    IF "redundantIsError" \in DOMAIN sp.opts THEN sp.opts.redundantIsError ELSE TRUE

NodesWithMissing ==
    {n \in Events("missing") : log[n].s.missingProperties # <<>>}

NodesWithRedundantError ==
    {n \in Events("redundant") :
        /\ log[n].s.redundantProperties # <<>>
        /\ ResolvedRedundantIsError(SpecAt(spec, log[n].path))}

C17_ErrorCountAddsUp ==
    Done =>
        summary.errorCount =
            Messages(summary.errors) + Cardinality(NodesWithMissing)
                + Cardinality(NodesWithRedundantError)

-----------------------------------------------------------------------------
(* C18: at every merge of a nested summary the entries that the parent's    *)
(* errors held before are still there, same keys, same messages, same       *)
(* order; each list of the child is there under its key with the prefix;    *)
(* and no key of the child with the prefix is a key the parent's errors     *)
(* already held - whatever the property names are.                          *)

C18_MergeLosesNothing ==
    \A n \in Events("merge") :
        LET k == log[n].key
            before == log[PropEventOf(n)].s
            child == log[n - 1].s
            after == log[n].s
        IN  /\ Len(after.errors) >= Len(before.errors)
            /\ SubSeq(after.errors, 1, Len(before.errors)) = before.errors
            /\ \A i \in 1..Len(child.errors) :
                /\ HasKey(after.errors, k \o "." \o child.errors[i].k)
                /\ Get(after.errors, k \o "." \o child.errors[i].k) = child.errors[i].v
                /\ ~HasKey(before.errors, k \o "." \o child.errors[i].k)

-----------------------------------------------------------------------------
(* C19: a call evaluates the declared properties that the object holds a    *)
(* value for in the order of the object's keys, all of them or, when it     *)
(* stops, the first ones; the rules of a property are evaluated in the      *)
(* order of its rule list, one after the other, each failure appending its  *)
(* message to errors[prop].                                                 *)

\* the paths of the calls made on objects
CallPaths == {log[n].path : n \in Events("missing")}

\* the properties the call at `path` evaluated, in the order it did
Evaluated(path) ==
    LET props == SelectSeq(log, LAMBDA e : e.ev = "prop" /\ e.path = path)
    IN  [n \in 1..Len(props) |-> props[n].key]

\* the declared properties with a value, in the order of the object's keys
InObjectOrder(sp, o) ==
    SelectSeq(KeysOf(SelectSeq(o.e, LAMBDA kv : Exists(kv.v))),
              LAMBDA k : HasKey(sp.props, k))

ReturnOf(path) == CHOOSE n \in Events("return") : log[n].path = path

C19_ObjectKeyOrderRuleListOrder ==
    /\ \A path \in CallPaths :
        LET done == Evaluated(path)
            all == InObjectOrder(SpecAt(spec, path), ValueAt(value, path))
        IN  /\ Len(done) <= Len(all)
            /\ done = SubSeq(all, 1, Len(done))
            /\ log[ReturnOf(path)].out = "end" => done = all
    /\ \A n \in Events("prop") :
        LET k == log[n].key
            keySpec == Get(SpecAt(spec, log[n].path).props, k)
            v == Get(ValueAt(value, log[n].path).e, k)
        IN  keySpec.t = "array" =>
                /\ \A j \in 0..(Len(keySpec.rules) - 1) :
                    LET e == log[n + 1 + j]
                        had == ListAt(log[n + j].s.errors, k)
                        has == ListAt(e.s.errors, k)
                    IN  /\ e.ev = "rule" /\ e.key = k /\ e.j = j
                        /\ e.path = log[n].path
                        /\ e.out = "pass" => has = had
                        /\ e.out = "fail" =>
                            has = Append(had, TypeErrorFactory(keySpec.rules[j + 1].m, v, k))
                        /\ e.out = "throw" =>
                            /\ Len(has) = Len(had) + 1
                            /\ SubSeq(has, 1, Len(had)) = had
                /\ log[n + 1 + Len(keySpec.rules)].ev # "rule"

\* the Spec declares "a" then "b" and stops after the first invalid property,
\* the object holds "b" then "a", both of the wrong type: "b" alone is reported
C19_Witness ==
    /\ Done
    /\ KeysOf(spec.props) = <<"a", "b">>
    /\ OptionSet(spec, "stopAfterInvalid")
    /\ value.t = "object"
    /\ KeysOf(value.e) = <<"b", "a">>
    /\ Get(value.e, "a").t = "string"
    /\ Get(spec.props, "a").t = "array" /\ Get(spec.props, "a").rules # <<>>
    /\ Evaluated(<<>>) = <<"b">>
    /\ KeysOf(summary.errors) = <<"b">>

\* two rules of one property, a failure then a throw, their messages in that
\* order
C19_WitnessRules ==
    /\ Done
    /\ \E n \in Events("rule") :
        /\ log[n].j = 1
        /\ log[n].out = "throw"
        /\ log[n - 1].out = "fail"
        /\ Len(Get(log[n].s.errors, log[n].key)) = 2

-----------------------------------------------------------------------------
(* C20: every call returns, and a nested call is made only for a property   *)
(* declared as a nested Spec whose value in an object is neither null nor  *)
(* undefined; a call on a non-object does nothing but its guard.  So the    *)
(* calls go no deeper than the Spec is nested and no deeper than the value  *)
(* is.                                                                      *)

Max(S) == IF S = {} THEN 0 ELSE CHOOSE x \in S : \A y \in S : y <= x

\* levels of nested Specs below Spec node x
RECURSIVE NestingDepth(_)
NestingDepth(x) ==
    Max({1 + NestingDepth(x.props[i].v) :
            i \in {i \in 1..Len(x.props) : x.props[i].v.t = "object"}})

\* levels of values below value v
RECURSIVE ValueDepth(_)
ValueDepth(v) == Max({1 + ValueDepth(v.e[i].v) : i \in 1..Len(v.e)})

Front(path) == SubSeq(path, 1, Len(path) - 1)

C20_ReturnsWithinBothDepths ==
    /\ Done \/ ENABLED Next
    /\ Done =>
        /\ log[Len(log)].path = <<>>
        /\ log[Len(log)].ev \in {"return", "guard"}
        /\ \A n \in 1..Len(log) :
            /\ Len(log[n].path) <= NestingDepth(spec)
            /\ Len(log[n].path) <= ValueDepth(value)
        /\ \A n \in Events("missing") \cup Events("guard") :
            LET path == log[n].path
            IN  path # <<>> =>
                    /\ ValueAt(value, Front(path)).t = "object"
                    /\ HasKey(ValueAt(value, Front(path)).e, path[Len(path)])
                    /\ ValueAt(value, path).t \notin {"null", "undefined"}
                    /\ HasKey(SpecAt(spec, Front(path)).props, path[Len(path)])
                    /\ SpecAt(spec, path).t = "object"
        /\ \A n \in Events("guard") :
            /\ ValueAt(value, log[n].path).t # "object"
            /\ \A m \in 1..Len(log) :
                (m # n /\ Len(log[m].path) >= Len(log[n].path)) =>
                    SubSeq(log[m].path, 1, Len(log[n].path)) # log[n].path
        /\ \A n \in Events("missing") : ValueAt(value, log[n].path).t = "object"

\* a value nested deeper than the Spec: the calls end with the Spec
C20_Witness ==
    /\ Done
    /\ NestingDepth(spec) = 1
    /\ ValueDepth(value) > 2
    /\ \E n \in 1..Len(log) : Len(log[n].path) = 1
    /\ \E n \in Events("rule") :
        Get(ValueAt(value, log[n].path).e, log[n].key).t = "object"

\* a Spec nested deeper than the value: the calls end at the first non-object
C20_WitnessShallowValue ==
    /\ Done
    /\ NestingDepth(spec) = 2
    /\ ValueDepth(value) = 1
    /\ \E n \in Events("guard") : log[n].path = <<"b">>

-----------------------------------------------------------------------------
(* C21: a nested call does what a call of its own on the nested Spec and    *)
(* the nested value does, step for step and with the same summary, whatever *)
(* the options of the Specs around it; and a call whose own Spec does not   *)
(* set stopAfterInvalid evaluates all its properties, whatever a nested     *)
(* Spec sets.                                                               *)

HasPrefix(path, prefix) ==
    /\ Len(path) >= Len(prefix)
    /\ SubSeq(path, 1, Len(prefix)) = prefix

\* the events of the call at `path` and of the calls below it, as that call
\* sees them
SubLog(path) ==
    LET evs == SelectSeq(log, LAMBDA e : HasPrefix(e.path, path))
    IN  [n \in 1..Len(evs) |->
            [evs[n] EXCEPT !.path = SubSeq(@, Len(path) + 1, Len(@))]]

\* the paths of all calls, those that ended at the guard included
AllCallPaths == {log[n].path : n \in Events("missing") \cup Events("guard")}

C21_OptionsPerNode ==
    Done =>
        /\ \A path \in AllCallPaths :
            LET own == Validate(SpecAt(spec, path), ValueAt(value, path))
                sub == SubLog(path)
            IN  /\ sub = own.log
                /\ sub[Len(sub)].s = own.s
        /\ \A path \in CallPaths :
            ~OptionSet(SpecAt(spec, path), "stopAfterInvalid") =>
                /\ log[ReturnOf(path)].out = "end"
                /\ Evaluated(path) =
                    InObjectOrder(SpecAt(spec, path), ValueAt(value, path))

\* the parent sets redundantIsError to false, the nested Spec does not: the
\* redundant property of the nested object counts 1
C21_Witness ==
    /\ Done
    /\ "redundantIsError" \in DOMAIN spec.opts
    /\ HasKey(spec.props, "b") /\ Get(spec.props, "b").t = "object"
    /\ Get(spec.props, "b").opts = NoOptions
    /\ summary.redundantProperties = <<"b.b">>
    /\ summary.errorCount = 1

\* the parent stops after the first invalid property, the nested Spec does
\* not: both properties of the nested object are reported
C21_WitnessParentStops ==
    /\ Done
    /\ OptionSet(spec, "stopAfterInvalid")
    /\ HasKey(summary.errors, "b.a")
    /\ HasKey(summary.errors, "b.b")

\* the nested Spec stops after the first invalid property, the parent does
\* not: the parent's property after the nested one is evaluated
C21_WitnessChildStops ==
    /\ Done
    /\ ~OptionSet(spec, "stopAfterInvalid")
    /\ \E n \in Events("return") :
        /\ log[n].out = "stop"
        /\ log[n].path = <<"b">>
        /\ log[n + 1].ev = "merge"
        /\ log[n + 2].ev = "prop"
        /\ log[n + 2].path = <<>>

====
